---------------------------- MODULE Spec2Model ----------------------------
(***************************************************************************)
(* Model of the multi-source software lookup tool (src/eol.py and its      *)
(* later revision src/eol_final.py).                                       *)
(*                                                                         *)
(* Part 1: Python / JSON values and the handful of Python operations the   *)
(*         fetchers use (dict.get, subscripting, truthiness, ==, join).    *)
(* Part 2: the upstream replies the environment can give.                  *)
(* Part 3: the fetchers, one operator per function, for both revisions.    *)
(* Part 4: the specification FetcherSpec: one fetcher call on one reply.   *)
(* Part 5: the specification Spec: runs of the Streamlit script.           *)
(* Part 6: the properties.                                                 *)
(***************************************************************************)
EXTENDS Integers, Sequences, FiniteSets, TLC

(***************************************************************************)
(* Part 1. Python values.  Every value is a record [t, v]: t is the type  *)
(* tag and v the content.  A dict is a TLA+ function from its string keys  *)
(* to values, a list is a sequence of values.  "exc" is not a value but a  *)
(* raised exception travelling up the expression that raised it; v is      *)
(* str(e).  "undecodable" is a response body that is not JSON.             *)
(***************************************************************************)
None == [t |-> "none", v |-> 0]

B(b) == [t |-> "bool", v |-> b]

N(n) == [t |-> "num", v |-> n]

S(s) == [t |-> "str", v |-> s]

L(seq) == [t |-> "list", v |-> seq]

O(f) == [t |-> "dict", v |-> f]

Exc(msg) == [t |-> "exc", v |-> msg]

Undecodable == [t |-> "undecodable", v |-> 0]

EmptyDict == O(<<>>)

EmptyList == L(<<>>)

IsExc(x) == x.t = "exc"

IsDict(x) == x.t = "dict"

IsList(x) == x.t = "list"

IsStr(x) == x.t = "str"

IsNone(x) == x.t = "none"

\* bool(x): None, False, 0, "", [] and {} are falsy, everything else truthy.
Truthy(x) ==
    CASE x.t = "none" -> FALSE
      [] x.t = "bool" -> x.v
      [] x.t = "num"  -> x.v # 0
      [] x.t = "str"  -> x.v # ""
      [] x.t = "list" -> Len(x.v) > 0
      [] x.t = "dict" -> DOMAIN x.v # {}
      [] OTHER        -> TRUE

\* The number a bool or a number stands for (bool is a subclass of int).
NumOf(x) == IF x.t = "bool" THEN (IF x.v THEN 1 ELSE 0) ELSE x.v

IsNumeric(x) == x.t \in {"bool", "num"}

\* x == y in Python: False == 0 and True == 1 hold, values of unrelated
\* types are unequal.
PyEq(x, y) ==
    IF IsNumeric(x) /\ IsNumeric(y) THEN NumOf(x) = NumOf(y)
    ELSE IF x.t # y.t THEN FALSE
    ELSE x = y

\* d.get(k, default): AttributeError unless d is a dict.
Get(d, k, default) ==
    IF IsExc(d) THEN d
    ELSE IF IsDict(d) THEN (IF k \in DOMAIN d.v THEN d.v[k] ELSE default)
    ELSE Exc("'" \o d.t \o "' object has no attribute 'get'")

\* d[k] with a string key: KeyError on a dict without the key, TypeError on
\* a list, a string, a number or None.
Sub(d, k) ==
    IF IsExc(d) THEN d
    ELSE IF IsDict(d) THEN (IF k \in DOMAIN d.v THEN d.v[k] ELSE Exc("'" \o k \o "'"))
    ELSE Exc("'" \o d.t \o "' object is not subscriptable by '" \o k \o "'")

\* x[0]: first element of a list, first character of a string; IndexError
\* when empty, KeyError on a dict (a JSON object has no key 0), TypeError
\* on None or a number.
First(x) ==
    IF IsExc(x) THEN x
    ELSE IF IsList(x) THEN (IF Len(x.v) > 0 THEN x.v[1] ELSE Exc("list index out of range"))
    ELSE IF IsStr(x) THEN
        (IF Len(x.v) > 0 THEN S(SubSeq(x.v, 1, 1)) ELSE Exc("string index out of range"))
    ELSE IF IsDict(x) THEN Exc("0")
    ELSE Exc("'" \o x.t \o "' object is not subscriptable")

\* a or b
Or(a, b) == IF IsExc(a) THEN a ELSE IF Truthy(a) THEN a ELSE b

\* len(x) of a dict or a list; TypeError on None and numbers.
PyLen(x) ==
    IF IsExc(x) THEN x
    ELSE IF IsDict(x) THEN N(Cardinality(DOMAIN x.v))
    ELSE IF IsList(x) THEN N(Len(x.v))
    ELSE IF IsStr(x) THEN N(Len(x.v))
    ELSE Exc("object of type '" \o x.t \o "' has no len()")

RECURSIVE JoinSeq(_)
\* ", ".join of a sequence of Python strings.
JoinSeq(seq) ==
    IF Len(seq) = 0 THEN ""
    ELSE IF Len(seq) = 1 THEN seq[1].v
    ELSE seq[1].v \o ", " \o JoinSeq(Tail(seq))

RECURSIVE FirstExc(_)
\* The first raised exception among the values of a sequence of <<key,
\* value>> pairs, None when there is none: a dict display evaluates its
\* entries left to right and the first raise aborts it.
FirstExc(pairs) ==
    IF Len(pairs) = 0 THEN None
    ELSE IF IsExc(pairs[1][2]) THEN pairs[1][2]
    ELSE FirstExc(Tail(pairs))

\* {k1: v1, k2: v2, ...}
Dict(pairs) ==
    LET e == FirstExc(pairs) IN
    IF IsExc(e) THEN e
    ELSE O([k \in {pairs[i][1] : i \in 1..Len(pairs)} |->
              LET i == CHOOSE j \in 1..Len(pairs) : pairs[j][1] = k IN pairs[i][2]])


RECURSIVE SetToSeq(_)
\* The elements of a finite set in some fixed order.
SetToSeq(set) ==
    IF set = {} THEN <<>>
    ELSE LET k == CHOOSE e \in set : TRUE IN <<k>> \o SetToSeq(set \ {k})

\* What a for-loop (or a comprehension) over x visits: the elements of a
\* list, the characters of a string, the keys of a dict (in the model's
\* order, JSON order being lost); TypeError on None, numbers and bools.
Items(x) ==
    CASE IsExc(x)  -> x
      [] IsList(x) -> x
      [] IsStr(x)  -> L([i \in 1..Len(x.v) |-> S(SubSeq(x.v, i, i))])
      [] IsDict(x) -> L(LET ks == SetToSeq(DOMAIN x.v) IN [i \in 1..Len(ks) |-> S(ks[i])])
      [] OTHER     -> Exc("'" \o x.t \o "' object is not iterable")

\* The list of the results, unless building one of them raised: then the
\* first raise, which is where the loop stops.
Collect(seq) ==
    IF \E i \in 1..Len(seq) : IsExc(seq[i])
    THEN seq[CHOOSE i \in 1..Len(seq) : IsExc(seq[i]) /\ \A j \in 1..(i-1) : ~IsExc(seq[j])]
    ELSE L(seq)

\* [F(e) for e in x]
ForEach(x, F(_)) ==
    LET it == Items(x) IN
    IF IsExc(it) THEN it ELSE Collect([i \in 1..Len(it.v) |-> F(it.v[i])])

\* ", ".join(x): x may be any iterable of strings (a list, the characters
\* of a string, the keys of a dict); TypeError when an element is not a
\* string or x is not iterable.
Join(x) ==
    LET it == Items(x) IN
    IF IsExc(it) THEN it
    ELSE IF \A i \in 1..Len(it.v) : IsStr(it.v[i]) THEN S(JoinSeq(it.v))
    ELSE Exc("sequence item: expected str instance")

\* x[:n] of a list or a string; TypeError on None, numbers and dicts.
Slice(x, n) ==
    IF IsExc(x) THEN x
    ELSE IF IsList(x) THEN L(SubSeq(x.v, 1, IF Len(x.v) < n THEN Len(x.v) ELSE n))
    ELSE IF IsStr(x) THEN S(SubSeq(x.v, 1, IF Len(x.v) < n THEN Len(x.v) ELSE n))
    ELSE Exc("'" \o x.t \o "' object is not subscriptable")

\* s.startswith(p)
StartsWith(s, p) == Len(s) >= Len(p) /\ SubSeq(s, 1, Len(p)) = p

\* d.get(key) where key is itself a Python value: a list or dict key is
\* unhashable (TypeError); JSON object keys are strings, so any other
\* non-string key is simply absent.
GetV(d, key, default) ==
    IF IsExc(d) THEN d
    ELSE IF IsExc(key) THEN key
    ELSE IF ~IsDict(d) THEN Exc("'" \o d.t \o "' object has no attribute 'get'")
    ELSE IF key.t \in {"list", "dict"} THEN Exc("unhashable type: '" \o key.t \o "'")
    ELSE IF IsStr(key) /\ key.v \in DOMAIN d.v THEN d.v[key.v]
    ELSE default

Digit(c) ==
    CASE c = "0" -> 0 [] c = "1" -> 1 [] c = "2" -> 2 [] c = "3" -> 3 [] c = "4" -> 4
      [] c = "5" -> 5 [] c = "6" -> 6 [] c = "7" -> 7 [] c = "8" -> 8 [] c = "9" -> 9
      [] OTHER -> -1

\* The number written by the two characters of s at i, i+1; -1 if not digits.
TwoDigits(s, i) ==
    LET a == Digit(SubSeq(s, i, i)) b == Digit(SubSeq(s, i + 1, i + 1)) IN
    IF a < 0 \/ b < 0 THEN -1 ELSE 10 * a + b

DaysIn(year, month) ==
    IF month \in {4, 6, 9, 11} THEN 30
    ELSE IF month = 2 THEN
        (IF year % 4 = 0 /\ (year % 100 # 0 \/ year % 400 = 0) THEN 29 ELSE 28)
    ELSE 31

\* Whether datetime.strptime(s, "%Y-%m-%dT%H:%M:%SZ") accepts s, for the
\* zero-padded 20-character form the upstream API sends (strptime also
\* accepts unpadded fields, which the catalogue does not contain).
IsTimestamp(s) ==
    /\ Len(s) = 20
    /\ SubSeq(s, 5, 5) = "-" /\ SubSeq(s, 8, 8) = "-" /\ SubSeq(s, 11, 11) = "T"
    /\ SubSeq(s, 14, 14) = ":" /\ SubSeq(s, 17, 17) = ":" /\ SubSeq(s, 20, 20) = "Z"
    /\ TwoDigits(s, 1) >= 0 /\ TwoDigits(s, 3) >= 0
    /\ 100 * TwoDigits(s, 1) + TwoDigits(s, 3) >= 1
    /\ TwoDigits(s, 6) \in 1..12
    /\ TwoDigits(s, 9) \in 1..DaysIn(100 * TwoDigits(s, 1) + TwoDigits(s, 3), TwoDigits(s, 6))
    /\ TwoDigits(s, 12) \in 0..23
    /\ TwoDigits(s, 15) \in 0..59
    /\ TwoDigits(s, 18) \in 0..61

\* datetime.strptime(x, "%Y-%m-%dT%H:%M:%SZ").strftime("%Y-%m-%d"):
\* TypeError when x is not a string, ValueError when it does not match.
ReformatDate(x) ==
    IF IsExc(x) THEN x
    ELSE IF ~IsStr(x) THEN Exc("strptime() argument 1 must be str, not " \o x.t)
    ELSE IF IsTimestamp(x.v) THEN S(SubSeq(x.v, 1, 10))
    ELSE Exc("time data '" \o x.v \o "' does not match format '%Y-%m-%dT%H:%M:%SZ'")

(***************************************************************************)
(* Part 2. Upstream replies.  requests.get either raises (a transport      *)
(* fault) or returns a response with a status code and a body.  A reply is *)
(* a record [t, status, body, msg] with t "fault" or "response".           *)
(***************************************************************************)
Fault(msg) == [t |-> "fault", status |-> 0, body |-> None, msg |-> msg]

Http(status, body) == [t |-> "response", status |-> status, body |-> body, msg |-> ""]

\* response.json(): ValueError (JSONDecodeError) on a body that is not JSON.
Json(r) ==
    IF r.body = Undecodable THEN Exc("Expecting value: line 1 column 1 (char 0)")
    ELSE r.body

\* except Exception as e: return f"Error: {str(e)}"
ErrorString(e) == S("Error: " \o e.v)

\* try: <body> except Exception as e: return f"Error: {str(e)}"
TryExceptError(body) == IF IsExc(body) THEN ErrorString(body) ELSE body

\* try: <body> except Exception as e: return None
TryExceptNone(body) == IF IsExc(body) THEN None ELSE body


\* The requests.get(...) call of a fetcher: the response, or the raised
\* transport exception.
RequestsGet(r) == IF r.t = "fault" THEN Exc(r.msg) ELSE r

\* The status test widened to any 2xx status (response.ok).
StatusOk_Any2xx(r) == r.status \in 200..299

\* if response.status_code == 200:
StatusOk(r) == r.status = 200

(***************************************************************************)
(* Part 3. The fetchers.  Body_f is the try-block of f, which evaluates   *)
(* to the returned value or to the exception it raised; f wraps it in the  *)
(* function's except clause.  rev is "eol" (src/eol.py) or "eol_final"     *)
(* (src/eol_final.py) where the two revisions differ.                      *)
(***************************************************************************)
Revisions == {"eol", "eol_final"}

\* "Yes" if version.get("lts", False) else "No"
YesNo(x) == IF IsExc(x) THEN x ELSE IF Truthy(x) THEN S("Yes") ELSE S("No")

\* "Active" if version.get("eol") == False else
\* "End of Life" if version.get("eol") else "Unknown"
SupportStatus(version) ==
    LET eol == Get(version, "eol", None) IN
    IF IsExc(eol) THEN eol
    ELSE IF PyEq(eol, B(FALSE)) THEN S("Active")
    ELSE IF Truthy(eol) THEN S("End of Life")
    ELSE S("Unknown")

VersionInfo(version) ==
    Dict(<< <<"Version", Get(version, "cycle", S("Unknown"))>>,
            <<"Release Date", Get(version, "releaseDate", S("Unknown"))>>,
            <<"EOL Date", Get(version, "eol", S("Unknown"))>>,
            <<"Latest", Get(version, "latest", S("Unknown"))>>,
            <<"LTS", YesNo(Get(version, "lts", B(FALSE)))>>,
            <<"Support Status", SupportStatus(version)>> >>)

Body_fetch_endoflife_date(software, r) ==
    LET response == RequestsGet(r) IN
    IF IsExc(response) THEN response
    ELSE IF StatusOk(response) THEN
        LET data == Json(response) IN
        IF IsExc(data) THEN data
        ELSE IF ~Truthy(data) THEN None
        ELSE ForEach(data, VersionInfo)
    ELSE None

fetch_endoflife_date(software, r) == TryExceptError(Body_fetch_endoflife_date(software, r))

\* for repo in repos[:50] (eol.py)
TopN_eol == 50

\* for repo in repos[:5] (eol_final.py)
TopN_final == 5

\* TopN with the limits of the two revisions exchanged.
TopN_Swapped(rev) == IF rev = "eol" THEN TopN_final ELSE TopN_eol

TopN(rev) == IF rev = "eol" THEN TopN_eol ELSE TopN_final

RepoInfo(repo) ==
    Dict(<< <<"Repository", Sub(repo, "full_name")>>,
            <<"Stars", Sub(repo, "stargazers_count")>>,
            <<"Last Updated", ReformatDate(Sub(repo, "updated_at"))>>,
            <<"Description", Or(Sub(repo, "description"), S("No description available"))>>,
            <<"Language", Or(Sub(repo, "language"), S("Unknown"))>>,
            <<"Forks", Sub(repo, "forks_count")>>,
            <<"Open Issues", Sub(repo, "open_issues_count")>> >>)

Body_fetch_github_activity(rev, software, r) ==
    LET response == RequestsGet(r) IN
    IF IsExc(response) THEN response
    ELSE IF StatusOk(response) THEN
        LET repos == Sub(Json(response), "items") IN
        IF IsExc(repos) THEN repos
        ELSE IF Truthy(repos) THEN ForEach(Slice(repos, TopN(rev)), RepoInfo)
        ELSE None
    ELSE None

fetch_github_activity(rev, software, r) ==
    TryExceptError(Body_fetch_github_activity(rev, software, r))

NpmRecord(rev, software, data, latest) ==
    LET version_info == GetV(Get(data, "versions", EmptyDict), latest, EmptyDict) IN
    IF IsExc(version_info) THEN version_info
    ELSE Dict(<< <<"Package Name", S(software)>>,
                 <<"Latest Version", latest>>,
                 <<"Last Published",
                   IF rev = "eol"
                   THEN GetV(Get(version_info, "time", EmptyDict), latest, None)
                   ELSE GetV(Get(data, "time", EmptyDict), latest, None)>>,
                 <<"License", Get(version_info, "license", None)>>,
                 <<"Dependencies", PyLen(Get(version_info, "dependencies", EmptyDict))>>,
                 <<"Downloads", Get(Get(data, "downloads", EmptyDict), "last-month", N(0))>> >>)

Body_fetch_npm_info(rev, software, r) ==
    LET response == RequestsGet(r) IN
    IF IsExc(response) THEN response
    ELSE IF StatusOk(response) THEN
        LET data == Json(response)
            latest == Get(Get(data, "dist-tags", EmptyDict), "latest", None)
        IN  IF IsExc(latest) THEN latest
            ELSE IF Truthy(latest) THEN NpmRecord(rev, software, data, latest)
            ELSE None
    ELSE None

fetch_npm_info(rev, software, r) == TryExceptError(Body_fetch_npm_info(rev, software, r))

\* info.get("classifiers", [])[:3] (eol_final.py)
ClassifierLimit == 3

Body_fetch_pypi_info(rev, software, r) ==
    LET response == RequestsGet(r) IN
    IF IsExc(response) THEN response
    ELSE IF StatusOk(response) THEN
        LET data == Json(response)
            info == Get(data, "info", EmptyDict)
            classifiers == Get(info, "classifiers", EmptyList)
        IN  IF IsExc(info) THEN info
            ELSE Dict(<< <<"Package Name", S(software)>>,
                         <<"Latest Version", Get(info, "version", None)>>,
                         <<"Last Published", Get(info, "upload_time", None)>>,
                         <<"License", Get(info, "license", None)>>,
                         <<"Python Versions",
                           IF rev = "eol" THEN Join(classifiers)
                           ELSE Join(Slice(classifiers, ClassifierLimit))>>,
                         <<"Downloads",
                           Get(Get(info, "downloads", EmptyDict), "last_month", N(0))>> >>)
    ELSE None

fetch_pypi_info(rev, software, r) == TryExceptError(Body_fetch_pypi_info(rev, software, r))

Body_fetch_dockerhub_info(rev, software, r) ==
    LET response == RequestsGet(r) IN
    IF IsExc(response) THEN response
    ELSE IF StatusOk(response) THEN
        LET data == Json(response)
            results == Get(data, "results", None)
        IN  IF IsExc(results) THEN results
            ELSE IF Truthy(results) THEN
                LET tag == First(Sub(data, "results")) IN
                IF IsExc(tag) THEN tag
                ELSE Dict(<< <<IF rev = "eol" THEN "Name" ELSE "Image", S(software)>>,
                             <<"Tag", Get(tag, "name", None)>>,
                             <<IF rev = "eol" THEN "Last Updated" ELSE "Updated",
                               Get(tag, "last_updated", None)>>,
                             <<"Pulls", Get(tag, "pull_count", S("N/A"))>> >>)
            ELSE None
    ELSE None

fetch_dockerhub_info(rev, software, r) ==
    TryExceptError(Body_fetch_dockerhub_info(rev, software, r))

RECURSIVE NatToStr(_)
NatToStr(n) ==
    IF n < 10 THEN SubSeq("0123456789", n + 1, n + 1)
    ELSE NatToStr(n \div 10) \o SubSeq("0123456789", (n % 10) + 1, (n % 10) + 1)

\* str(x) of a scalar or of an empty container (the only containers the
\* catalogue passes to str()).
PyStr(x) ==
    CASE IsExc(x)    -> x
      [] IsNone(x)   -> S("None")
      [] x.t = "bool" -> S(IF x.v THEN "True" ELSE "False")
      [] x.t = "num" -> S(IF x.v < 0 THEN "-" \o NatToStr(0 - x.v) ELSE NatToStr(x.v))
      [] IsStr(x)    -> x
      [] IsDict(x) /\ DOMAIN x.v = {} -> S("{}")
      [] OTHER       -> S("<" \o x.t \o ">")

\* ", ".join(licenses) if isinstance(licenses, list) else str(licenses)
LicenseStr(licenses) ==
    IF IsExc(licenses) THEN licenses
    ELSE IF IsList(licenses) THEN Join(licenses)
    ELSE PyStr(licenses)

Body_fetch_rubygems_info(rev, software, r) ==
    LET response == RequestsGet(r) IN
    IF IsExc(response) THEN response
    ELSE IF StatusOk(response) THEN
        LET data == Json(response)
            licenses == Get(data, "licenses", EmptyList)
            license_str == LicenseStr(licenses)
        IN  IF rev = "eol_final" /\ IsExc(license_str) THEN license_str
            ELSE Dict(<< <<"Gem Name", Get(data, "name", None)>>,
                         <<"Latest Version", Get(data, "version", None)>>,
                         <<"Downloads", Get(data, "downloads", None)>>,
                         <<"Last Updated", Get(data, "version_created_at", None)>>,
                         <<"License", IF rev = "eol" THEN licenses ELSE license_str>> >>)
    ELSE None

fetch_rubygems_info(rev, software, r) ==
    TryExceptError(Body_fetch_rubygems_info(rev, software, r))

Body_fetch_maven_info(software, r) ==
    LET response == RequestsGet(r) IN
    IF IsExc(response) THEN response
    ELSE IF StatusOk(response) THEN
        LET data == Json(response)
            docs == Get(Get(data, "response", EmptyDict), "docs", EmptyList)
        IN  IF IsExc(docs) THEN docs
            ELSE IF Truthy(docs) THEN
                LET doc == First(docs) IN
                IF IsExc(doc) THEN doc
                ELSE Dict(<< <<"Artifact", Get(doc, "id", None)>>,
                             <<"Latest Version", Get(doc, "latestVersion", None)>>,
                             <<"Last Updated", Get(doc, "timestamp", None)>>,
                             <<"Group", Get(doc, "g", None)>>,
                             <<"ArtifactId", Get(doc, "a", None)>> >>)
            ELSE None
    ELSE None

\* fetch_maven_info without its try/except.
fetch_maven_info_NoExcept(software, r) == Body_fetch_maven_info(software, r)

fetch_maven_info(software, r) == TryExceptError(Body_fetch_maven_info(software, r))

\* A stub: performs no request.
fetch_os_package_info(software) == None

\* for repo in repos[:3]
AdvisoryLimit == 3

AdvisoryInfo_eol(repo) ==
    Dict(<< <<"Title", Sub(repo, "name")>>,
            <<"Description", Sub(repo, "description")>>,
            <<"Last Updated", ReformatDate(Sub(repo, "updated_at"))>>,
            <<"URL", Sub(repo, "html_url")>> >>)

AdvisoryInfo_final(repo) ==
    Dict(<< <<"Title", Sub(repo, "name")>>,
            <<"Description", Sub(repo, "description")>>,
            <<"Updated", ReformatDate(Sub(repo, "updated_at"))>>,
            <<"URL", Sub(repo, "html_url")>> >>)

Body_fetch_security_advisories(rev, software, r) ==
    LET response == RequestsGet(r) IN
    IF IsExc(response) THEN response
    ELSE IF StatusOk(response) THEN
        LET repos == Sub(Json(response), "items") IN
        IF IsExc(repos) THEN repos
        ELSE IF Truthy(repos) THEN
            (IF rev = "eol" THEN ForEach(Slice(repos, AdvisoryLimit), AdvisoryInfo_eol)
             ELSE ForEach(Slice(repos, AdvisoryLimit), AdvisoryInfo_final))
        ELSE None
    ELSE None

\* eol.py returns f"Error: {str(e)}" from its except clause, eol_final.py
\* returns None.
fetch_security_advisories(rev, software, r) ==
    IF rev = "eol" THEN TryExceptError(Body_fetch_security_advisories(rev, software, r))
    ELSE TryExceptNone(Body_fetch_security_advisories(rev, software, r))


\* tag["name"] of the comprehension over related_tags
TagName(tag) == Sub(tag, "name")

\* stats = {...}, the dict display fetch_community_stats evaluates first.
NewStats ==
    Dict(<< <<"Stack Overflow", Dict(<< <<"Questions", N(0)>>, <<"Tags", EmptyList>> >>)>>,
            <<"GitHub", Dict(<< <<"Repositories", N(0)>>, <<"Stars", N(0)>> >>)>> >>)

\* StatsAtEntry for a stats dict created once and shared by the calls.
StatsAtEntry_Shared(earlier) == IF IsDict(earlier) THEN earlier ELSE NewStats

\* The stats dict a call of fetch_community_stats starts from, earlier
\* being what an earlier call returned (None when there was none): stats
\* is a local, bound to a new dict at every call.
StatsAtEntry(earlier) == NewStats

\* The first try-block of fetch_community_stats run on the "Stack
\* Overflow" entry dflt: the entry after it.  An exception is swallowed
\* (except: pass) and leaves whatever was assigned before it was raised.
StackOverflowStatsFrom(dflt, r) ==
    LET response == RequestsGet(r)
    IN  IF IsExc(response) THEN dflt
        ELSE IF ~StatusOk(response) THEN dflt
        ELSE LET data == Json(response)
                 items == Get(data, "items", None)
             IN  IF IsExc(items) \/ ~Truthy(items) THEN dflt
                 ELSE LET item == First(Sub(data, "items"))
                          count == Get(item, "count", N(0))
                          tags == ForEach(Get(item, "related_tags", EmptyList), TagName)
                      IN  IF IsExc(count) THEN dflt
                          ELSE IF IsExc(tags) THEN [Questions |-> count, Tags |-> dflt.Tags]
                          ELSE [Questions |-> count, Tags |-> tags]

\* The first try-block on the entry of a new stats dict.
StackOverflowStats(r) ==
    StackOverflowStatsFrom([Questions |-> N(0), Tags |-> EmptyList], r)

\* The second try-block of fetch_community_stats (eol_final.py only) run
\* with stats["GitHub"]["Repositories"] = dflt: its value after it.
GitHubRepositoriesFrom(dflt, r) ==
    LET response == RequestsGet(r) IN
    IF IsExc(response) THEN dflt
    ELSE IF ~StatusOk(response) THEN dflt
    ELSE LET total == Get(Json(response), "total_count", N(0)) IN
         IF IsExc(total) THEN dflt ELSE total

GitHubRepositories(r) == GitHubRepositoriesFrom(N(0), r)

\* fetch_community_stats called after an earlier call returned earlier.
\* r is the reply to the Stack Exchange request, r2 the reply to the GitHub
\* request, which only eol_final.py makes.
fetch_community_stats_after(earlier, rev, software, r, r2) ==
    LET stats == StatsAtEntry(earlier)
        so0 == stats.v["Stack Overflow"].v
        gh0 == stats.v["GitHub"].v
        so == StackOverflowStatsFrom([Questions |-> so0["Questions"], Tags |-> so0["Tags"]], r)
    IN  Dict(<< <<"Stack Overflow",
                  Dict(<< <<"Questions", so.Questions>>, <<"Tags", so.Tags>> >>)>>,
                <<"GitHub",
                  Dict(<< <<"Repositories",
                            IF rev = "eol" THEN gh0["Repositories"]
                            ELSE GitHubRepositoriesFrom(gh0["Repositories"], r2)>>,
                          <<"Stars", gh0["Stars"]>> >>)>> >>)

\* The first call of the process.
fetch_community_stats(rev, software, r, r2) ==
    fetch_community_stats_after(None, rev, software, r, r2)

(***************************************************************************)
(* The outcome of a call, as the callers tell them apart: None is Empty, a *)
(* string starting with "Error" is Failure, a list or a dict is Success.   *)
(* "Raised" is a call that did not return: the exception reached the       *)
(* caller.                                                                 *)
(***************************************************************************)
Outcome(ret) ==
    CASE IsExc(ret)  -> "Raised"
      [] IsNone(ret) -> "Empty"
      [] IsStr(ret) /\ StartsWith(ret.v, "Error") -> "Failure"
      [] IsList(ret) \/ IsDict(ret) -> "Success"
      [] OTHER       -> "Other"

\* The fetcher functions by name.
Fetchers ==
    { "fetch_endoflife_date", "fetch_github_activity", "fetch_npm_info",
      "fetch_pypi_info", "fetch_dockerhub_info", "fetch_rubygems_info",
      "fetch_maven_info", "fetch_os_package_info", "fetch_security_advisories",
      "fetch_community_stats" }

\* The value fetcher fn of revision rev returns for software when the
\* upstream answers r (and r2 to a second request).
Call(rev, fn, software, r, r2) ==
    CASE fn = "fetch_endoflife_date"      -> fetch_endoflife_date(software, r)
      [] fn = "fetch_github_activity"     -> fetch_github_activity(rev, software, r)
      [] fn = "fetch_npm_info"            -> fetch_npm_info(rev, software, r)
      [] fn = "fetch_pypi_info"           -> fetch_pypi_info(rev, software, r)
      [] fn = "fetch_dockerhub_info"      -> fetch_dockerhub_info(rev, software, r)
      [] fn = "fetch_rubygems_info"       -> fetch_rubygems_info(rev, software, r)
      [] fn = "fetch_maven_info"          -> fetch_maven_info(software, r)
      [] fn = "fetch_os_package_info"     -> fetch_os_package_info(software)
      [] fn = "fetch_security_advisories" -> fetch_security_advisories(rev, software, r)
      [] fn = "fetch_community_stats"     -> fetch_community_stats(rev, software, r, r2)

\* CallAfter for result lists (repo_info, versions_data, advisories) that
\* are created once and appended to by every call.
CallAfter_SharedList(earlier, rev, fn, software, r, r2) ==
    LET result == Call(rev, fn, software, r, r2) IN
    IF IsList(result) /\ IsList(earlier) THEN L(earlier.v \o result.v) ELSE result

\* The value the call returns when an earlier call of the same fetcher
\* returned earlier: every fetcher creates its result (repo_info = [],
\* the dict displays) inside the call; fetch_community_stats is the one
\* that mutates an object (stats) after creating it.
CallAfter(earlier, rev, fn, software, r, r2) ==
    IF fn = "fetch_community_stats"
    THEN fetch_community_stats_after(earlier, rev, software, r, r2)
    ELSE Call(rev, fn, software, r, r2)

\* RequestsOf without the second try block of fetch_community_stats.
RequestsOf_NoSecondRequest(rev, fn) ==
    CASE fn = "fetch_os_package_info" -> 0
      [] OTHER -> 1

\* The number of outbound requests one call of fn makes.
RequestsOf(rev, fn) ==
    CASE fn = "fetch_os_package_info" -> 0
      [] fn = "fetch_community_stats" /\ rev = "eol_final" -> 2
      [] OTHER -> 1


(***************************************************************************)
(* Part 4. The catalogue of upstream replies, and the specification        *)
(* FetcherSpec: one call of one fetcher on one reply.                      *)
(***************************************************************************)
\* The longest list of records an upstream reply of the catalogue carries.
MaxItems == 2

\* All sequences over set of length 0..n.
Lists(set, n) == UNION {[1..k -> set] : k \in 0..n}

\* item with key k set to val / with key k removed.
With(item, k, val) == O([x \in DOMAIN item.v \cup {k} |-> IF x = k THEN val ELSE item.v[x]])

Without(item, k) == O([x \in DOMAIN item.v \ {k} |-> item.v[x]])

\* What requests.get can raise.
Faults ==
    { Fault("Connection refused"), Fault("Read timed out"),
      Fault("Name or service not known") }

OtherStatuses == {201, 403, 404, 429, 500}

\* Bodies that are no reply of any of the APIs: not JSON, or JSON of the
\* wrong type.
WrongBodies ==
    { Undecodable, None, B(TRUE), N(0), N(7), S(""), S("rate limited"),
      EmptyList, EmptyDict, L(<<N(1)>>), L(<<S("x")>>),
      O([message |-> S("Not Found")]) }

GoodVersion ==
    O([cycle |-> S("3.12"), releaseDate |-> S("2023-10-02"), eol |-> S("2028-10-31"),
       latest |-> S("3.12.4"), lts |-> B(FALSE)])

\* The values the upstream "eol" field is given.
EolValues ==
    { B(FALSE), B(TRUE), S("2028-10-31"), S(""), None, N(0), N(1), EmptyList }

VersionItems ==
    {With(GoodVersion, "eol", e) : e \in EolValues}
        \cup { Without(GoodVersion, "eol"), EmptyDict,
               O([cycle |-> S("2.7"), lts |-> B(TRUE), eol |-> B(TRUE)]) }

EolBodies == {L(l) : l \in Lists(VersionItems, MaxItems)} \cup WrongBodies

GoodRepo ==
    O([full_name |-> S("psf/requests"), name |-> S("requests"),
       stargazers_count |-> N(5), updated_at |-> S("2024-02-29T10:00:00Z"),
       description |-> S("HTTP for humans"), language |-> S("Python"),
       forks_count |-> N(1), open_issues_count |-> N(2),
       html_url |-> S("https://github.com/psf/requests")])

RepoItems ==
    { GoodRepo,
      With(With(GoodRepo, "full_name", S("a/b")), "updated_at", S("2023-12-31T23:59:59Z")),
      With(GoodRepo, "description", None), Without(GoodRepo, "description"),
      With(GoodRepo, "description", S("")),
      With(GoodRepo, "language", None), Without(GoodRepo, "language"),
      Without(GoodRepo, "full_name"), Without(GoodRepo, "name"),
      With(GoodRepo, "updated_at", S("2023-02-29T10:00:00Z")),
      With(GoodRepo, "updated_at", None), Without(GoodRepo, "updated_at"),
      EmptyDict, S("x") }

\* The i-th repository of a long search result.
NthRepo(i) ==
    With(With(With(GoodRepo, "full_name", S("org/r" \o NatToStr(i))),
              "name", S("r" \o NatToStr(i))),
         "stargazers_count", N(i))

\* Lengths of search results beyond the slices repos[:3], repos[:5] and
\* repos[:50].
LongLengths == {4, 6, 51}

LongSearchBodies ==
    {O([items |-> L([i \in 1..k |-> NthRepo(i)]), total_count |-> N(k)]) : k \in LongLengths}

SearchBodies ==
    {O([items |-> L(l), total_count |-> N(Len(l))]) : l \in Lists(RepoItems, MaxItems)}
        \cup LongSearchBodies
        \cup {O([items |-> x]) : x \in {None, S("abc"), N(3), O([a |-> N(1)])}}
        \cup {O([total_count |-> N(0)])}
        \cup WrongBodies

GoodNpmVersion ==
    O([license |-> S("MIT"), dependencies |-> O([a |-> S("^1.0"), b |-> S("^2.0")]),
       time |-> O(("1.3.0" :> S("2018-04-09T01:10:45Z")))])

GoodNpm ==
    O(("dist-tags" :> O([latest |-> S("1.3.0")]))
      @@ [versions |-> O(("1.3.0" :> GoodNpmVersion)),
          time |-> O(("1.3.0" :> S("2018-04-09T01:10:45Z"))),
          downloads |-> O(("last-month" :> N(9)))])

NpmBodies ==
    { GoodNpm,
      Without(GoodNpm, "dist-tags"), With(GoodNpm, "dist-tags", EmptyDict),
      With(GoodNpm, "dist-tags", None), With(GoodNpm, "dist-tags", S("latest")),
      With(GoodNpm, "dist-tags", O([latest |-> None])),
      With(GoodNpm, "dist-tags", O([latest |-> S("")])),
      With(GoodNpm, "dist-tags", O([latest |-> S("2.0.0")])),
      With(GoodNpm, "dist-tags", O([latest |-> N(1)])),
      With(GoodNpm, "dist-tags", O([latest |-> L(<<S("1.3.0")>>)])),
      Without(GoodNpm, "versions"), With(GoodNpm, "versions", EmptyList),
      With(GoodNpm, "versions", O(("1.3.0" :> None))),
      With(GoodNpm, "versions", O(("1.3.0" :> With(GoodNpmVersion, "dependencies", None)))),
      With(GoodNpm, "versions", O(("1.3.0" :> EmptyDict))),
      Without(GoodNpm, "time"), With(GoodNpm, "time", None),
      Without(GoodNpm, "downloads"), With(GoodNpm, "downloads", N(4)) }
        \cup WrongBodies

GoodPypiInfo ==
    O([version |-> S("2.31.0"), upload_time |-> S("2023-05-22T15:12:44"),
       license |-> S("Apache 2.0"),
       classifiers |-> L(<<S("A"), S("B"), S("C"), S("D")>>),
       downloads |-> O([last_day |-> N(-1), last_month |-> N(-1)])])

PypiInfos ==
    { GoodPypiInfo, EmptyDict, None, S("info"),
      Without(GoodPypiInfo, "version"), With(GoodPypiInfo, "version", None),
      Without(GoodPypiInfo, "classifiers"), With(GoodPypiInfo, "classifiers", None),
      With(GoodPypiInfo, "classifiers", L(<<S("A"), None>>)),
      With(GoodPypiInfo, "classifiers", L(<<S("A"), S("B"), S("C"), None>>)),
      With(GoodPypiInfo, "classifiers", S("abcd")),
      With(GoodPypiInfo, "classifiers", O([a |-> N(1)])),
      Without(GoodPypiInfo, "downloads"), With(GoodPypiInfo, "downloads", None) }

PypiBodies ==
    {O([info |-> i, urls |-> EmptyList]) : i \in PypiInfos} \cup WrongBodies

GoodTag ==
    O([name |-> S("latest"), last_updated |-> S("2024-05-01T00:00:00.000Z")])

DockerResults ==
    { L(<<GoodTag>>), L(<<With(GoodTag, "pull_count", N(10)), GoodTag>>),
      L(<<EmptyDict>>), L(<<S("latest")>>), L(<<None>>),
      EmptyList, EmptyDict, None, O([a |-> GoodTag]), S("abc"), N(5) }

DockerBodies ==
    {O([count |-> N(1), results |-> x]) : x \in DockerResults}
        \cup {O([count |-> N(0)])} \cup WrongBodies

GoodGem ==
    O([name |-> S("rails"), version |-> S("7.1.3"), downloads |-> N(500),
       version_created_at |-> S("2024-01-16T22:00:00.000Z"),
       licenses |-> L(<<S("MIT"), S("Ruby")>>)])

GemLicenses ==
    { L(<<S("MIT"), S("Ruby")>>), L(<<S("Ruby"), S("MIT")>>), L(<<S("MIT")>>),
      EmptyList, None, S("MIT"), N(3), B(TRUE), EmptyDict, L(<<None>>),
      L(<<S("MIT"), N(2)>>) }

GemBodies ==
    {With(GoodGem, "licenses", x) : x \in GemLicenses}
        \cup { Without(GoodGem, "licenses"), Without(GoodGem, "name"),
               O([licenses |-> L(<<S("MIT")>>)]) }
        \cup WrongBodies

GoodDoc ==
    O([id |-> S("org.junit:junit"), latestVersion |-> S("4.13"), timestamp |-> N(100),
       g |-> S("org.junit"), a |-> S("junit")])

MavenDocs ==
    { L(<<GoodDoc>>), L(<<Without(GoodDoc, "latestVersion"), GoodDoc>>),
      L(<<EmptyDict>>), L(<<S("doc")>>), L(<<None>>),
      EmptyList, None, EmptyDict, O([a |-> N(1)]), S("abc"), N(5) }

MavenBodies ==
    {O([response |-> O([numFound |-> N(1), docs |-> d])]) : d \in MavenDocs}
        \cup { O([response |-> O([numFound |-> N(0)])]), O([response |-> None]),
               O([response |-> EmptyList]), O([responseHeader |-> EmptyDict]) }
        \cup WrongBodies

GoodTagInfo ==
    O([name |-> S("python"), count |-> N(1234),
       related_tags |-> L(<<O([name |-> S("django")]), O([name |-> S("pandas")])>>)])

RelatedTags ==
    { L(<<O([name |-> S("django")]), O([name |-> S("pandas")])>>),
      L(<<O([name |-> S("django")])>>), EmptyList, None, S("ab"),
      L(<<O([name |-> None])>>), L(<<O([name |-> N(3)]), O([name |-> S("x")])>>),
      L(<<EmptyDict>>), L(<<S("django")>>), N(2) }

TagInfos ==
    {With(GoodTagInfo, "related_tags", x) : x \in RelatedTags}
        \cup { Without(GoodTagInfo, "related_tags"),
               Without(Without(GoodTagInfo, "related_tags"), "count"),
               With(GoodTagInfo, "count", S("many")), With(GoodTagInfo, "count", None),
               EmptyDict, S("python"), None }

TagBodies ==
    {O([items |-> L(<<i>>), has_more |-> B(FALSE)]) : i \in TagInfos}
        \cup {O([items |-> x]) : x \in {EmptyList, None, S("abc"), N(3), O([a |-> N(1)])}}
        \cup {O([has_more |-> B(FALSE)])}
        \cup WrongBodies

CountBodies ==
    { O([total_count |-> N(12), items |-> EmptyList]), O([total_count |-> N(0)]),
      O([total_count |-> None]), O([message |-> S("rate limited")]),
      EmptyDict, EmptyList, None, Undecodable }

\* The JSON bodies the catalogue holds for the request fetcher fn makes.
Bodies(fn) ==
    CASE fn = "fetch_endoflife_date"      -> EolBodies
      [] fn = "fetch_github_activity"     -> SearchBodies
      [] fn = "fetch_npm_info"            -> NpmBodies
      [] fn = "fetch_pypi_info"           -> PypiBodies
      [] fn = "fetch_dockerhub_info"      -> DockerBodies
      [] fn = "fetch_rubygems_info"       -> GemBodies
      [] fn = "fetch_maven_info"          -> MavenBodies
      [] fn = "fetch_os_package_info"     -> {}
      [] fn = "fetch_security_advisories" -> SearchBodies
      [] fn = "fetch_community_stats"     -> TagBodies

\* A reply of the API of fn that carries a record for the software.
GoodBody(fn) ==
    CASE fn = "fetch_endoflife_date"      -> L(<<GoodVersion>>)
      [] fn = "fetch_github_activity"     -> O([items |-> L(<<GoodRepo>>)])
      [] fn = "fetch_npm_info"            -> GoodNpm
      [] fn = "fetch_pypi_info"           -> O([info |-> GoodPypiInfo])
      [] fn = "fetch_dockerhub_info"      -> O([results |-> L(<<GoodTag>>)])
      [] fn = "fetch_rubygems_info"       -> GoodGem
      [] fn = "fetch_maven_info"          -> O([response |-> O([docs |-> L(<<GoodDoc>>)])])
      [] fn = "fetch_os_package_info"     -> None
      [] fn = "fetch_security_advisories" -> O([items |-> L(<<GoodRepo>>)])
      [] fn = "fetch_community_stats"     -> O([items |-> L(<<GoodTagInfo>>)])

\* No reply: the placeholder for a request that is not made.
NoReply == [t |-> "noreply", status |-> 0, body |-> None, msg |-> ""]

\* The replies the environment may give to the request of fn: a transport
\* fault, a status other than 200 (whose body is an error page, an empty
\* object or even a well-formed record), or 200 with a body of the
\* catalogue.
Replies(fn) ==
    IF fn = "fetch_os_package_info" THEN {NoReply}
    ELSE Faults
        \cup {Http(st, b) : st \in OtherStatuses,
                            b \in {Undecodable, EmptyDict, GoodBody(fn)}}
        \cup {Http(200, b) : b \in Bodies(fn)}

\* The replies to the second request of fetch_community_stats
\* (eol_final.py), the GitHub repository count.
CountReplies ==
    {Fault("Connection refused")}
        \cup {Http(st, O([message |-> S("rate limited")])) : st \in {403, 404}}
        \cup {Http(200, b) : b \in CountBodies}

SecondReplies(rev, fn) ==
    IF RequestsOf(rev, fn) = 2 THEN CountReplies ELSE {NoReply}

\* Software names a caller passes.
Names == {"python", "left-pad"}


VARIABLES
    call,       \* FetcherSpec: the call under test [rev, fn, software, r, r2]
    ret,        \* FetcherSpec: what the call returned, Pending before it does
    rev,        \* Spec: the script that runs, "eol" or "eol_final"
    SOURCES,    \* Spec: the source registry, a sequence of [name, fn]
    software,   \* Spec: the script's variable software in the current run
    search_button, \* Spec: whether this run counts as a request to analyse
    pc,         \* Spec: "idle", "fetching", "render", "done" or "crashed"
    step,       \* Spec: index into Program of the fetch being made
    inflight,   \* Spec: number of outbound requests awaiting their reply
    held,       \* Spec: replies the current call has received so far
    got,        \* Spec: site -> the replies its call received in this run
    bundle,     \* Spec: site -> the value its call returned in this run
    shown,      \* Spec: tab or section -> the indicator rendered in it
    message,    \* Spec: the message shown outside the tabs
    requests,   \* Spec: outbound requests made in this run
    invoked,    \* Spec: the calls made in this run, <<fn, software>> each
    anomalies,  \* Spec: replies so far that were not the nominal one
    runs,       \* Spec: script runs so far
    previous    \* what the earlier query (Spec) or call (RepeatSpec) returned, by site

fvars == <<call, ret>>

uvars == <<rev, SOURCES, software, search_button, pc, step, inflight, held, got, bundle, shown,
           message, requests, invoked, anomalies, runs>>

vars == <<call, ret, rev, SOURCES, software, search_button, pc, step, inflight, held, got, bundle,
          shown, message, requests, invoked, anomalies, runs, previous>>

\* The call has not returned yet.
Pending == [t |-> "pending", v |-> 0]

\* No call: the value of call in runs of the script.
NoCall == [rev |-> "none", fn |-> "none", software |-> "", r |-> NoReply, r2 |-> NoReply]

Calls ==
    UNION { [rev : {rv}, fn : {fn}, software : Names,
             r : Replies(fn), r2 : SecondReplies(rv, fn)] :
            <<rv, fn>> \in Revisions \X Fetchers }

\* No script runs in FetcherSpec.
NoScript ==
    /\ rev = "none" /\ SOURCES = <<>> /\ software = "" /\ search_button = FALSE
    /\ pc = "off" /\ step = 0
    /\ inflight = 0 /\ held = <<>> /\ got = <<>> /\ bundle = <<>> /\ shown = <<>>
    /\ message = "" /\ requests = 0 /\ invoked = <<>> /\ anomalies = 0 /\ runs = 0
    /\ previous = <<>>

FetcherInit ==
    /\ call \in Calls
    /\ ret = Pending
    /\ NoScript

\* The call of fetcher fn runs to its return (or to the exception it lets
\* through).
Returns(fn) ==
    /\ ret = Pending
    /\ call.fn = fn
    /\ ret' = Call(call.rev, fn, call.software, call.r, call.r2)
    /\ UNCHANGED call
    /\ UNCHANGED <<uvars, previous>>

Call_fetch_endoflife_date == Returns("fetch_endoflife_date")

Call_fetch_github_activity == Returns("fetch_github_activity")

Call_fetch_npm_info == Returns("fetch_npm_info")

Call_fetch_pypi_info == Returns("fetch_pypi_info")

Call_fetch_dockerhub_info == Returns("fetch_dockerhub_info")

Call_fetch_rubygems_info == Returns("fetch_rubygems_info")

Call_fetch_maven_info == Returns("fetch_maven_info")

Call_fetch_os_package_info == Returns("fetch_os_package_info")

Call_fetch_security_advisories == Returns("fetch_security_advisories")

Call_fetch_community_stats == Returns("fetch_community_stats")

FetcherNext ==
    \/ Call_fetch_endoflife_date
    \/ Call_fetch_github_activity
    \/ Call_fetch_npm_info
    \/ Call_fetch_pypi_info
    \/ Call_fetch_dockerhub_info
    \/ Call_fetch_rubygems_info
    \/ Call_fetch_maven_info
    \/ Call_fetch_os_package_info
    \/ Call_fetch_security_advisories
    \/ Call_fetch_community_stats

FetcherSpec == FetcherInit /\ [][FetcherNext]_vars

(***************************************************************************)
(* RepeatSpec: the same fetcher is called twice in one process with the    *)
(* same name, the transport giving the same replies both times.  The first *)
(* return is kept in previous, the second goes to ret.                     *)
(***************************************************************************)
FirstCall ==
    /\ previous = <<>>
    /\ previous' = (call.fn :> Call(call.rev, call.fn, call.software, call.r, call.r2))
    /\ UNCHANGED <<call, ret, uvars>>

SecondCall ==
    /\ previous # <<>> /\ ret = Pending
    /\ ret' = CallAfter(previous[call.fn], call.rev, call.fn, call.software, call.r, call.r2)
    /\ UNCHANGED <<call, previous, uvars>>

RepeatNext == FirstCall \/ SecondCall

RepeatSpec == FetcherInit /\ [][RepeatNext]_vars


(***************************************************************************)
(* Part 5. Runs of the Streamlit script.  Every user interaction reruns    *)
(* the script from the top; a run that analyses a name makes its outbound  *)
(* requests one after another, and the environment chooses each reply.     *)
(***************************************************************************)
\* Script runs in a behaviour.
MaxRuns == 2

\* Replies of one behaviour that may differ from the nominal reply.
MaxAnomalies == 1

\* SOURCES as both files define it.
ShippedSources ==
    << [name |-> "EndOfLife.date", fn |-> "fetch_endoflife_date"],
       [name |-> "GitHub", fn |-> "fetch_github_activity"],
       [name |-> "NPM", fn |-> "fetch_npm_info"],
       [name |-> "PyPI", fn |-> "fetch_pypi_info"],
       [name |-> "Docker Hub", fn |-> "fetch_dockerhub_info"],
       [name |-> "RubyGems", fn |-> "fetch_rubygems_info"],
       [name |-> "Maven Central", fn |-> "fetch_maven_info"],
       [name |-> "OS Package Manager", fn |-> "fetch_os_package_info"] >>

\* An entry added to SOURCES: the stub registered for one more platform.
AddedSource == [name |-> "Alpine packages", fn |-> "fetch_os_package_info"]

\* The registries considered: the shipped one, and it with one entry added.
Registries == {ShippedSources, Append(ShippedSources, AddedSource)}

SourceNames(reg) == {reg[i].name : i \in 1..Len(reg)}

CommunityStep == [name |-> "Community", fn |-> "fetch_community_stats"]

\* The inline request of the Community tab of eol.py.
CountStep == [name |-> "GitHub count", fn |-> "github_count"]

SecurityStep == [name |-> "Security", fn |-> "fetch_security_advisories"]

\* eol.py: the loop over SOURCES.items(), then the Community tab, then the
\* Security tab.
Program_eol(reg) == reg \o <<CommunityStep, CountStep, SecurityStep>>

\* eol_final.py: the ten calls written out under the spinner.
Program_final ==
    << [name |-> "EndOfLife.date", fn |-> "fetch_endoflife_date"],
       [name |-> "GitHub", fn |-> "fetch_github_activity"],
       [name |-> "NPM", fn |-> "fetch_npm_info"],
       [name |-> "PyPI", fn |-> "fetch_pypi_info"],
       [name |-> "Docker Hub", fn |-> "fetch_dockerhub_info"],
       [name |-> "RubyGems", fn |-> "fetch_rubygems_info"],
       [name |-> "Maven Central", fn |-> "fetch_maven_info"],
       [name |-> "OS Package Manager", fn |-> "fetch_os_package_info"],
       SecurityStep,
       CommunityStep >>

Program == IF rev = "eol" THEN Program_eol(SOURCES) ELSE Program_final

\* Outbound requests the step makes.
StepRequests(st) == IF st.fn = "github_count" THEN 1 ELSE RequestsOf(rev, st.fn)

\* examples = ["python", "nodejs", "react", "ubuntu", "php"]
examples == <<"python", "nodejs", "react", "ubuntu", "php">>

\* What the user may have typed into the text input.
Texts == {"", "vue"}

\* The button pressed in the interaction that triggers a run, if any.
NoClick == [b |-> "none", i |-> 0]

Analyze == [b |-> "analyze", i |-> 0]

Example(i) == [b |-> "example", i |-> i]

\* The example buttons a user is taken to press: the first and the last.
PressedExamples == {1, Len(examples)}

\* The interactions that trigger a run.
AllClicks == {NoClick, Analyze} \cup {Example(i) : i \in PressedExamples}

GoodCount == O([total_count |-> N(12)])

\* The reply a healthy upstream gives to request k of a call of fn.
NominalReply(fn, k) ==
    IF fn = "github_count" \/ k = 2 THEN Http(200, GoodCount)
    ELSE Http(200, GoodBody(fn))

BadTags ==
    O([items |-> L(<<With(GoodTagInfo, "related_tags", L(<<O([name |-> None])>>))>>)])

\* A search result with more repositories than fetch_security_advisories
\* keeps.
ManyAdvisories == CHOOSE b \in LongSearchBodies : Len(b.v["items"].v) = AdvisoryLimit + 1

\* The other replies a run may receive to request k of a call of fn.
AnomalousReplies(fn, k) ==
    IF fn = "github_count" \/ k = 2
    THEN { Fault("Connection refused"), Http(403, O([message |-> S("rate limited")])),
           Http(404, EmptyDict) }
    ELSE { Fault("Connection refused"), Http(404, EmptyDict), Http(200, EmptyDict) }
            \cup (IF fn = "fetch_community_stats" THEN {Http(200, BadTags)} ELSE {})
            \cup (IF fn = "fetch_security_advisories" THEN {Http(200, ManyAdvisories)} ELSE {})
            \cup (IF fn = "fetch_github_activity"
                  THEN {Http(200, O([items |-> L(<<With(GoodRepo, "stargazers_count", None)>>)]))}
                  ELSE {})

\* github_repo_count and github_error of the Community tab of eol.py.
GitHubCount_eol(r) ==
    LET response == RequestsGet(r) IN
    IF IsExc(response)
    THEN Dict(<< <<"count", N(0)>>, <<"error", S("GitHub API error: " \o response.v)>> >>)
    ELSE IF StatusOk(response) THEN
        LET total == Get(Json(response), "total_count", N(0)) IN
        IF IsExc(total)
        THEN Dict(<< <<"count", N(0)>>, <<"error", S("GitHub API error: " \o total.v)>> >>)
        ELSE Dict(<< <<"count", total>>, <<"error", None>> >>)
    ELSE IF response.status = 403
    THEN Dict(<< <<"count", N(0)>>,
                 <<"error", S("GitHub API rate limit exceeded. Please try again later or use a personal access token.")>> >>)
    ELSE Dict(<< <<"count", N(0)>>,
                 <<"error", S("GitHub API error: " \o NatToStr(response.status))>> >>)

\* What the earlier query or call returned at the site, None if nothing.
Earlier(name) == IF name \in DOMAIN previous THEN previous[name] ELSE None

\* What the step's call evaluates to on the replies it received.
StepResult(st, replies) ==
    IF st.fn = "github_count" THEN GitHubCount_eol(replies[1])
    ELSE CallAfter(Earlier(st.name), rev, st.fn, software,
                   IF Len(replies) >= 1 THEN replies[1] ELSE NoReply,
                   IF Len(replies) >= 2 THEN replies[2] ELSE NoReply)

\* eol.py, the tab of a registry source: st.error for an "Error..."
\* string, the data for any other truthy result, st.info otherwise.
TabIndicator_eol(result) ==
    IF IsStr(result) /\ StartsWith(result.v, "Error") THEN "error"
    ELSE IF Truthy(result) THEN "data"
    ELSE "nodata"

\* ", ".join(community_stats["Stack Overflow"]["Tags"]) raises: the
\* exception is not caught and ends the script run.  (eol_final.py joins
\* Tags[:10]; the replies considered carry fewer than ten tags.)
TagsJoinRaises(stats) ==
    LET tags == stats.v["Stack Overflow"].v["Tags"] IN
    Truthy(tags) /\ IsExc(Join(tags))

\* eol_final.py: sections shown for list results (Version History, GitHub,
\* Security) and for the registries (isinstance(data, dict)).
ListIndicator_final(data) == IF IsList(data) /\ Truthy(data) THEN "data" ELSE "nodata"

DictIndicator_final(data) == IF IsDict(data) THEN "data" ELSE "nodata"

\* registry_data of the Package Registries tab.
RegistryTabs ==
    <<"NPM", "PyPI", "Docker Hub", "RubyGems", "Maven Central", "OS Package Manager">>

\* sum(repo.get("Stars", 0) for repo in github_data) raises TypeError when
\* a star count is not a number.
StarsSumRaises(data) ==
    IsList(data) /\ \E i \in 1..Len(data.v) : ~IsNumeric(Get(data.v[i], "Stars", N(0)))

\* SecurityStatus with "High Risk" if security_count > 3.
SecurityStatus_AboveLimit(security_data) ==
    LET security_count == IF IsList(security_data) THEN Len(security_data.v) ELSE 0 IN
    IF security_count > 3 THEN "High Risk"
    ELSE IF security_count = 0 THEN "Low Risk"
    ELSE "Medium Risk"

\* security_count and security_status of the Overview tab.
SecurityStatus(security_data) ==
    LET security_count == IF IsList(security_data) THEN Len(security_data.v) ELSE 0 IN
    IF security_count > 2 THEN "High Risk"
    ELSE IF security_count = 0 THEN "Low Risk"
    ELSE "Medium Risk"


\* sorted(..., key=Release Date) of the Overview tab raises TypeError when
\* two of the kept release dates cannot be ordered (not all strings and not
\* all numbers).
OverviewSortRaises(eol_data) ==
    IsList(eol_data) /\
    LET dates == {eol_data.v[i].v["Release Date"] : i \in
                    {j \in 1..Len(eol_data.v) :
                        /\ Truthy(eol_data.v[j].v["Release Date"])
                        /\ ~PyEq(eol_data.v[j].v["Release Date"], S("Unknown"))}}
        kept == Cardinality({j \in 1..Len(eol_data.v) :
                        /\ Truthy(eol_data.v[j].v["Release Date"])
                        /\ ~PyEq(eol_data.v[j].v["Release Date"], S("Unknown"))})
    IN  /\ kept >= 2
        /\ ~(\A d \in dates : IsStr(d))
        /\ ~(\A d \in dates : IsNumeric(d))

\* The tabs of eol_final.py in the order the script fills them, each with
\* the indicator it shows; "raises" is the tab whose code raised, if any,
\* which ends the run with the later tabs left empty.
Rendering_final(b) ==
    LET overview == <<[tab |-> "Overview",
                       ind |-> IF OverviewSortRaises(b["EndOfLife.date"]) THEN "raises"
                               ELSE SecurityStatus(b["Security"])]>>
        history == <<[tab |-> "Version History", ind |-> ListIndicator_final(b["EndOfLife.date"])]>>
        github == <<[tab |-> "GitHub",
                     ind |-> IF StarsSumRaises(b["GitHub"]) THEN "raises"
                             ELSE ListIndicator_final(b["GitHub"])]>>
        registries == [i \in 1..Len(RegistryTabs) |->
                        [tab |-> RegistryTabs[i], ind |-> DictIndicator_final(b[RegistryTabs[i]])]]
        community == <<[tab |-> "Community",
                        ind |-> IF TagsJoinRaises(b["Community"]) THEN "raises" ELSE "data"]>>
        security == <<[tab |-> "Security", ind |-> ListIndicator_final(b["Security"])]>>
    IN  overview \o history \o github \o registries \o community \o security

\* The part of a rendering that is carried out: up to the first tab that
\* raises, included.
Rendered(seq) ==
    IF \E i \in 1..Len(seq) : seq[i].ind = "raises"
    THEN SubSeq(seq, 1, CHOOSE i \in 1..Len(seq) :
                            seq[i].ind = "raises" /\ \A j \in 1..(i-1) : seq[j].ind # "raises")
    ELSE seq

Init ==
    /\ call = NoCall /\ ret = Pending
    /\ rev \in Revisions
    /\ SOURCES \in Registries
    /\ software = "" /\ search_button = FALSE
    /\ pc = "idle" /\ step = 0 /\ inflight = 0
    /\ held = <<>> /\ got = <<>> /\ bundle = <<>> /\ shown = <<>>
    /\ message = "" /\ requests = 0 /\ invoked = <<>> /\ anomalies = 0 /\ runs = 0
    /\ previous = <<>>

\* What a run that starts finds of the earlier query: the one object a
\* fetcher mutates after creating it, the stats dict of
\* fetch_community_stats, as the earlier query returned it.
Kept ==
    IF "Community" \in DOMAIN bundle THEN ("Community" :> bundle["Community"])
    ELSE previous

\* A script run can start: no run is in progress.
AtRest == pc \in {"idle", "done", "crashed"}

\* The run goes on to analyse name: the page is rebuilt and the first call
\* is next.
BeginAnalysis(name) ==
    /\ software' = name
    /\ search_button' = TRUE
    /\ pc' = "fetching" /\ step' = 1 /\ inflight' = 0
    /\ held' = <<>> /\ got' = <<>> /\ bundle' = <<>> /\ shown' = <<>>
    /\ message' = "" /\ requests' = 0 /\ invoked' = <<>> /\ anomalies' = anomalies
    /\ runs' = runs + 1
    /\ previous' = Kept
    /\ UNCHANGED <<rev, SOURCES, fvars>>

\* The run ends without analysing anything, showing msg.
NoAnalysis(name, clicked, msg) ==
    /\ software' = name
    /\ search_button' = clicked
    /\ pc' = "idle" /\ step' = 0 /\ inflight' = 0
    /\ held' = <<>> /\ got' = <<>> /\ bundle' = <<>> /\ shown' = <<>>
    /\ message' = msg /\ requests' = 0 /\ invoked' = <<>> /\ anomalies' = anomalies
    /\ runs' = runs + 1
    /\ previous' = Kept
    /\ UNCHANGED <<rev, SOURCES, fvars>>

\* eol.py from the top to the first fetch: software = st.text_input(...);
\* if st.button("Analyze Software"): if software: ... else: st.error(...)
Rerun_eol(text, click) ==
    /\ rev = "eol" /\ AtRest /\ runs < MaxRuns
    /\ click \in {NoClick, Analyze}
    /\ IF click = Analyze
       THEN IF text # "" THEN BeginAnalysis(text)
            ELSE NoAnalysis(text, TRUE, "Please enter a software name")
       ELSE NoAnalysis(text, FALSE, "")

\* Rerun_final with "if search_button:" for "if search_button and software:".
Rerun_final_NoNameCheck(text, click) ==
    /\ rev = "eol_final" /\ AtRest /\ runs < MaxRuns
    /\ click \in AllClicks
    /\ LET byExample == text = "" /\ click.b = "example"
           sw == IF byExample THEN examples[click.i] ELSE text
           clicked == click = Analyze \/ byExample
       IN  IF clicked THEN BeginAnalysis(sw)
           ELSE NoAnalysis(sw, FALSE, "Enter a software name to begin analysis")

\* eol_final.py from the top to the first fetch: the text input, the
\* Analyze button, the example buttons (only when the text is empty), then
\* if search_button and software / elif not search_button / elif not software.
Rerun_final(text, click) ==
    /\ rev = "eol_final" /\ AtRest /\ runs < MaxRuns
    /\ click \in AllClicks
    /\ LET byExample == text = "" /\ click.b = "example"
           sw == IF byExample THEN examples[click.i] ELSE text
           clicked == click = Analyze \/ byExample
       IN  IF clicked /\ sw # "" THEN BeginAnalysis(sw)
           ELSE IF ~clicked
                THEN NoAnalysis(sw, FALSE, "Enter a software name to begin analysis")
                ELSE NoAnalysis(sw, TRUE, "Please enter a software name to analyze")

\* tabs of eol.py with the two fixed tabs put first.
tabs_FixedFirst(reg) == <<"Community", "Security">> \o [i \in 1..Len(reg) |-> reg[i].name]

\* eol.py: tabs = st.tabs(list(SOURCES.keys()) + ["Community", "Security"])
tabs(reg) == [i \in 1..Len(reg) |-> reg[i].name] \o <<"Community", "Security">>

\* eol.py: the tab step i of the script writes into: tabs[i] in the loop
\* over SOURCES, tabs[-2] for the Community section, tabs[-1] for Security.
TabAt(i) ==
    IF i <= Len(SOURCES) THEN tabs(SOURCES)[i]
    ELSE IF Program[i] = SecurityStep THEN tabs(SOURCES)[Len(tabs(SOURCES))]
    ELSE tabs(SOURCES)[Len(tabs(SOURCES)) - 1]

\* The call of the step returns result, having received replies; in eol.py
\* the tab the call belongs to is then filled.
Finish(st, replies) ==
    LET result == StepResult(st, replies)
        raises == rev = "eol" /\ st.fn = "github_count" /\ TagsJoinRaises(bundle["Community"])
        last == step = Len(Program)
    IN  /\ bundle' = (st.name :> result) @@ bundle
        /\ got' = (st.name :> replies) @@ got
        /\ held' = <<>>
        /\ shown' =
             IF rev # "eol" \/ st = CommunityStep THEN shown
             ELSE IF st = CountStep
                  THEN (TabAt(step) :> (IF raises THEN "raises" ELSE "data")) @@ shown
                  ELSE (TabAt(step) :> TabIndicator_eol(result)) @@ shown
        /\ pc' = IF raises THEN "crashed"
                 ELSE IF ~last THEN "fetching"
                 ELSE IF rev = "eol" THEN "done" ELSE "render"
        /\ step' = IF raises \/ last THEN step ELSE step + 1

\* The current call sends its next outbound request.
Send ==
    /\ pc = "fetching" /\ inflight = 0
    /\ Len(held) < StepRequests(Program[step])
    /\ inflight' = 1
    /\ requests' = requests + 1
    /\ invoked' = IF Len(held) = 0 /\ Program[step].fn # "github_count"
                  THEN Append(invoked, <<Program[step].fn, software>>)
                  ELSE invoked
    /\ UNCHANGED <<rev, SOURCES, software, search_button, pc, step, held, got, bundle,
                   shown, message, anomalies, runs, previous, fvars>>

\* The outstanding request is answered (or fails); when it was the call's
\* last request, the call returns.
Receive(reply) ==
    /\ pc = "fetching" /\ inflight = 1
    /\ LET st == Program[step]
           k == Len(held) + 1
           nominal == reply = NominalReply(st.fn, k)
       IN  /\ \/ nominal
              \/ anomalies < MaxAnomalies /\ reply \in AnomalousReplies(st.fn, k)
           /\ anomalies' = IF nominal THEN anomalies ELSE anomalies + 1
           /\ inflight' = 0
           /\ IF k < StepRequests(st)
              THEN /\ held' = Append(held, reply)
                   /\ UNCHANGED <<pc, step, got, bundle, shown>>
              ELSE Finish(st, Append(held, reply))
    /\ UNCHANGED <<rev, SOURCES, software, search_button, message, requests, invoked,
                   runs, previous, fvars>>

\* The current call makes no request (fetch_os_package_info) and returns.
StubCall ==
    /\ pc = "fetching" /\ inflight = 0
    /\ StepRequests(Program[step]) = 0
    /\ invoked' = Append(invoked, <<Program[step].fn, software>>)
    /\ Finish(Program[step], <<>>)
    /\ UNCHANGED <<rev, SOURCES, software, search_button, inflight, message, requests,
                   anomalies, runs, previous, fvars>>

\* eol_final.py after its fetches: the six tabs are filled from the bundle.
Render_final ==
    /\ pc = "render"
    /\ LET done == Rendered(Rendering_final(bundle)) IN
       /\ shown' = [t \in {done[i].tab : i \in 1..Len(done)} |->
                      LET i == CHOOSE j \in 1..Len(done) : done[j].tab = t IN done[i].ind]
       /\ pc' = IF \E i \in 1..Len(done) : done[i].ind = "raises" THEN "crashed" ELSE "done"
    /\ UNCHANGED <<rev, SOURCES, software, search_button, step, inflight, held, got,
                   bundle, message, requests, invoked, anomalies, runs, previous, fvars>>

AllReplies ==
    UNION {AnomalousReplies(fn, k) \cup {NominalReply(fn, k)} :
           <<fn, k>> \in (Fetchers \cup {"github_count"}) \X {1, 2}}

Next ==
    \/ \E text \in Texts, click \in AllClicks : Rerun_eol(text, click)
    \/ \E text \in Texts, click \in AllClicks : Rerun_final(text, click)
    \/ Send
    \/ \E reply \in AllReplies : Receive(reply)
    \/ StubCall
    \/ Render_final

Spec == Init /\ [][Next]_vars

\* A script run is in progress.  In these states, and in no others, a
\* step of the run is possible: a call with requests left sends (Send), a
\* request that is out can be answered (Receive), the stub returns
\* (StubCall), the tabs are filled (Render_final).
Running == pc \in {"fetching", "render"}

\* The position of the script run.  Send, Receive, StubCall and
\* Render_final each change it, and while Running no other action is
\* enabled.
position == <<pc, step, inflight>>

\* The run in progress moves on.
Advance ==
    /\ Running
    /\ pc' \in {"fetching", "render", "done", "crashed"}
    /\ step' \in {step, step + 1}
    /\ inflight' \in {0, 1}

\* Runs in which the script, being synchronous, executes its next
\* statement whenever it has one, and every outbound request eventually
\* returns a response or a fault.
LiveSpec == Spec /\ WF_position(Advance)


(***************************************************************************)
(* Part 6. The properties.  C1, C2, C4, C5, C6, C9, C10, C11 and C14 are   *)
(* about one fetcher call (FetcherSpec); C13 about two calls in a row      *)
(* (RepeatSpec); C3, C7, C8, C12, C15, C16, C18, C19 and C20 about runs of *)
(* the script (Spec); C17 about runs that keep going (LiveSpec).           *)
(***************************************************************************)
\* The call under test has returned (or raised).
Returned == ret # Pending

\* The call under test made a request and got an HTTP response.
GotResponse == RequestsOf(call.rev, call.fn) >= 1 /\ call.r.t = "response"

\* C1: every call of every fetcher, whatever the upstream does, ends in
\* exactly one of Success (a list or a dict), Empty (None) or Failure (a
\* string starting with "Error"); no exception reaches the caller.
C1_EveryCallResolves ==
    Returned => Outcome(ret) \in {"Success", "Empty", "Failure"}

\* A call whose try-block raised (the body of a 200 reply is not JSON) and
\* that returned the error string.
C1_Witness ==
    /\ Returned /\ call.fn = "fetch_maven_info"
    /\ call.r.t = "response" /\ call.r.status = 200 /\ call.r.body = Undecodable
    /\ Outcome(ret) = "Failure"

\* C2: when the request fails in transport, or the body of the 200 reply is
\* not JSON, the fetcher returns Failure with a non-empty message.
C2_FaultGivesFailure ==
    (/\ Returned /\ RequestsOf(call.rev, call.fn) >= 1
     /\ \/ call.r.t = "fault"
        \/ call.r.t = "response" /\ call.r.status = 200 /\ call.r.body = Undecodable)
    => (Outcome(ret) = "Failure" /\ Len(ret.v) > 0)

\* C4 as stated: every fetcher that makes a request returns Empty on any
\* status other than 200, whatever the body.
C4_Non200GivesEmpty ==
    (Returned /\ GotResponse /\ call.r.status # 200) => Outcome(ret) = "Empty"

\* The "Stack Overflow" entry fetch_community_stats starts from.
DefaultStackOverflow == Dict(<< <<"Questions", N(0)>>, <<"Tags", EmptyList>> >>)

\* C4 (amended): on any status other than 200, whatever the body, the
\* fetchers fetch_endoflife_date .. fetch_security_advisories return Empty,
\* and fetch_community_stats returns its statistics record with the Stack
\* Overflow entry left at its defaults (0 questions, no tags).
C4_Non200GivesEmptyOrDefaults ==
    (Returned /\ GotResponse /\ call.r.status # 200) =>
        IF call.fn = "fetch_community_stats"
        THEN IsDict(ret) /\ ret.v["Stack Overflow"] = DefaultStackOverflow
        ELSE Outcome(ret) = "Empty"

\* A 404 whose body is a well-formed record, answered with Empty.
C4_Witness ==
    /\ Returned /\ call.fn = "fetch_pypi_info"
    /\ call.r.t = "response" /\ call.r.status = 404
    /\ call.r.body = GoodBody("fetch_pypi_info")
    /\ Outcome(ret) = "Empty"

\* The key under which the reply of fn carries its content, "" when the
\* reply is the record itself.
ContentKey(fn) ==
    CASE fn \in {"fetch_github_activity", "fetch_security_advisories",
                 "fetch_community_stats"} -> "items"
      [] fn = "fetch_pypi_info"      -> "info"
      [] fn = "fetch_dockerhub_info" -> "results"
      [] fn = "fetch_maven_info"     -> "response"
      [] OTHER -> ""

\* The upstream has no record for the name: a 404, or a 200 whose payload
\* is empty (an empty list from the API that serves a list, an empty object
\* from the others) or is an object without the content key.
NoRecordReply(fn, r) ==
    /\ r.t = "response"
    /\ \/ r.status = 404
       \/ /\ r.status = 200
          /\ IF fn = "fetch_endoflife_date" THEN r.body = EmptyList
             ELSE \/ r.body = EmptyDict
                  \/ /\ ContentKey(fn) # "" /\ IsDict(r.body)
                     /\ ContentKey(fn) \notin DOMAIN r.body.v

\* C5: when the upstream has no record for the name, HTTP 200 with an
\* empty payload or a payload without the expected content included, the
\* fetcher returns Empty (not Failure, not a record of null fields).
C5_NoRecordGivesEmpty ==
    (Returned /\ RequestsOf(call.rev, call.fn) >= 1 /\ NoRecordReply(call.fn, call.r))
    => Outcome(ret) = "Empty"

\* The Support Status the claim prescribes for an upstream version item.
PrescribedStatus(version) ==
    IF "eol" \notin DOMAIN version.v THEN "Unknown"
    ELSE IF version.v["eol"] = B(FALSE) THEN "Active"
    ELSE IF Truthy(version.v["eol"]) THEN "End of Life"
    ELSE "Unknown"

\* C6: in fetch_endoflife_date the Support Status of each record is
\* "Active" when the upstream eol is the boolean false, "End of Life" when
\* it is present and truthy, "Unknown" for every other value (absent, null,
\* the number 0, ...).
C6_SupportStatus ==
    (/\ Returned /\ call.fn = "fetch_endoflife_date"
     /\ call.r.t = "response" /\ call.r.status = 200
     /\ IsList(call.r.body) /\ Len(call.r.body.v) > 0
     /\ \A i \in 1..Len(call.r.body.v) : IsDict(call.r.body.v[i]))
    => /\ IsList(ret) /\ Len(ret.v) = Len(call.r.body.v)
       /\ \A i \in 1..Len(ret.v) :
            ret.v[i].v["Support Status"] = S(PrescribedStatus(call.r.body.v[i]))

\* x is the object good with some (possibly all, possibly none) of its
\* keys missing.
KeysMissing(x, good) ==
    /\ IsDict(x) /\ IsDict(good)
    /\ \A k \in DOMAIN x.v : k \in DOMAIN good.v /\ x.v[k] = good.v[k]

\* The body is a well-formed reply of the API of fn but for missing keys:
\* top-level keys, or keys of the repository items of a search reply.
MissingFields(fn, body) ==
    /\ IsDict(body)
    /\ \/ KeysMissing(body, GoodBody(fn))
       \/ /\ fn \in {"fetch_github_activity", "fetch_security_advisories"}
          /\ "items" \in DOMAIN body.v /\ IsList(body.v["items"])
          /\ \A i \in 1..Len(body.v["items"].v) :
                KeysMissing(body.v["items"].v[i], GoodRepo)

\* C9: a 200 reply whose JSON has missing fields (a repository item
\* without full_name, updated_at, description or language, a search reply
\* without items, ...) never gives Failure.
C9_SchemaErrorNeverFails ==
    (/\ Returned /\ GotResponse /\ call.r.status = 200
     /\ MissingFields(call.fn, call.r.body))
    => Outcome(ret) # "Failure"

\* The item is a repository with every field but possibly description and
\* language, which may also be null.
RepoMissingOnly(item) ==
    /\ IsDict(item)
    /\ DOMAIN GoodRepo.v \ {"description", "language"} \subseteq DOMAIN item.v
    /\ \A k \in DOMAIN item.v \ {"description", "language"} : item.v[k] = GoodRepo.v[k]

Missing(item, k) == k \notin DOMAIN item.v \/ IsNone(item.v[k])

\* C10: in fetch_github_activity an item whose description (language) is
\* absent or null gives a record with Description "No description
\* available" (Language "Unknown").
C10_Placeholders ==
    (/\ Returned /\ call.fn = "fetch_github_activity"
     /\ call.r.t = "response" /\ call.r.status = 200
     /\ IsDict(call.r.body) /\ "items" \in DOMAIN call.r.body.v
     /\ IsList(call.r.body.v["items"]) /\ Len(call.r.body.v["items"].v) > 0
     /\ \A i \in 1..Len(call.r.body.v["items"].v) :
            RepoMissingOnly(call.r.body.v["items"].v[i]))
    => LET items == call.r.body.v["items"].v IN
       /\ IsList(ret) /\ Len(ret.v) = Len(items)
       /\ \A i \in 1..Len(items) :
            /\ Missing(items[i], "description")
                 => ret.v[i].v["Description"] = S("No description available")
            /\ Missing(items[i], "language") => ret.v[i].v["Language"] = S("Unknown")

\* The script run has ended, normally or by an uncaught exception.
RunOver == pc \in {"done", "crashed"}

\* How many calls of fn the run has made.
TimesInvoked(fn) == Cardinality({j \in 1..Len(invoked) : invoked[j][1] = fn})

\* C3: in one query the outcome recorded for a source depends only on that
\* source's own upstream reply: whatever one call yields, every other call
\* of the script's fetch sequence (the sources, the community statistics,
\* the advisory search) is still made, and what it returns is what it
\* returns on its own replies.
C3_SourcesIndependent ==
    RunOver =>
        \A i \in 1..Len(Program) :
            LET st == Program[i] IN
            /\ st.name \in DOMAIN bundle
            /\ st.fn # "github_count" => TimesInvoked(st.fn) >= 1
            /\ bundle[st.name] = StepResult(st, got[st.name])

ValidationMessages ==
    {"Please enter a software name", "Please enter a software name to analyze"}

\* C7: no fetcher is ever invoked with an empty software name, and a run
\* in which analysis is requested with an empty name shows a validation
\* message and makes no outbound request.
C7_NoFetchWithoutName ==
    /\ \A j \in 1..Len(invoked) : invoked[j][2] # ""
    /\ (pc \in {"fetching", "render", "done", "crashed"} \/ requests > 0) => software # ""
    /\ (search_button /\ software = "") =>
            /\ message \in ValidationMessages
            /\ requests = 0 /\ invoked = <<>> /\ inflight = 0 /\ pc = "idle"

\* Analyze was pressed with the text input empty, after a run that analysed
\* nothing either: the validation message is up.
C7_Witness ==
    /\ runs = 2 /\ search_button /\ software = ""
    /\ message \in ValidationMessages /\ requests = 0

\* How many entries of the registry name the fetcher fn.
TimesRegistered(fn) == Cardinality({i \in 1..Len(SOURCES) : SOURCES[i].fn = fn})

\* C8: a query that runs to its end has invoked the fetcher of every entry
\* of SOURCES exactly once, fetch_security_advisories and
\* fetch_community_stats once each, and its bundle holds an outcome under
\* every registered source name, whatever entries the registry contains.
C8_EveryRegisteredSourceFetched ==
    pc = "done" =>
        /\ \A fn \in Fetchers :
              TimesInvoked(fn) =
                  TimesRegistered(fn)
                    + (IF fn \in {"fetch_security_advisories", "fetch_community_stats"}
                       THEN 1 ELSE 0)
        /\ SourceNames(SOURCES) \subseteq DOMAIN bundle

\* The strings of seq joined by ", ".
RECURSIVE CommaJoined(_)
CommaJoined(seq) ==
    IF Len(seq) = 0 THEN ""
    ELSE IF Len(seq) = 1 THEN seq[1].v
    ELSE seq[1].v \o ", " \o CommaJoined(Tail(seq))

\* The upstream licenses value is a list of strings / a scalar.
ListOfStrings(x) == IsList(x) /\ \A i \in 1..Len(x.v) : IsStr(x.v[i])

Scalar(x) == x.t \in {"str", "num"}

\* C11: in fetch_rubygems_info, on a 200 gem payload, License is a single
\* string: the strings of a licenses list joined by ", " in their order,
\* a scalar licenses as a string.
C11_LicenseIsJoinedString ==
    (/\ Returned /\ call.fn = "fetch_rubygems_info"
     /\ call.r.t = "response" /\ call.r.status = 200
     /\ IsDict(call.r.body) /\ "licenses" \in DOMAIN call.r.body.v
     /\ LET licenses == call.r.body.v["licenses"] IN
            ListOfStrings(licenses) \/ Scalar(licenses))
    => LET licenses == call.r.body.v["licenses"] IN
       /\ IsDict(ret)
       /\ ret.v["License"] =
            IF IsList(licenses) THEN S(CommaJoined(licenses.v))
            ELSE IF IsStr(licenses) THEN licenses
            ELSE S(NatToStr(licenses.v))

\* The calls of fetchers the run has completed: steps of Program with a
\* recorded outcome, the inline count request of eol.py apart.
CompletedCalls ==
    {i \in 1..Len(Program) :
        Program[i].name \in DOMAIN got /\ Program[i].fn # "github_count"}

\* The replies received by the completed steps among the first i of
\* Program.
RECURSIVE RepliesUpTo(_)
RepliesUpTo(i) ==
    IF i = 0 THEN 0
    ELSE RepliesUpTo(i - 1)
            + (IF Program[i].name \in DOMAIN got THEN Len(got[Program[i].name]) ELSE 0)

\* C12 as stated: every invocation of every fetcher performs exactly one
\* outbound request, whatever the replies.
C12_ExactlyOneRequest ==
    \A i \in CompletedCalls : Len(got[Program[i].name]) = 1

\* C12 (amended): a call of fetch_os_package_info makes no request, a call
\* of fetch_community_stats of eol_final.py makes two (the second whatever
\* the first gave), a call of any other fetcher makes exactly one; no
\* request is ever repeated: the requests of a run are the replies its
\* calls received plus the one in flight.
C12_RequestsPerCall ==
    LET expected(st) ==
            IF st.fn = "fetch_os_package_info" THEN 0
            ELSE IF st.fn = "fetch_community_stats" /\ rev = "eol_final" THEN 2
            ELSE 1
    IN  /\ \A i \in CompletedCalls : Len(got[Program[i].name]) = expected(Program[i])
        /\ pc = "fetching" => Len(held) + inflight <= expected(Program[step])
        /\ pc \in {"fetching", "render", "done", "crashed"}
              => requests = RepliesUpTo(Len(Program)) + Len(held) + inflight

\* A query of eol_final.py is over; the Stack Overflow request of
\* fetch_community_stats failed in transport, and the call went on to its
\* GitHub request without repeating the first.
C12_Witness ==
    /\ pc = "done" /\ rev = "eol_final"
    /\ Len(got["Community"]) = 2 /\ got["Community"][1].t = "fault"
    /\ got["OS Package Manager"] = <<>>
    /\ Len(got["GitHub"]) = 1

WellFormedRepo(item) ==
    /\ IsDict(item) /\ DOMAIN GoodRepo.v \subseteq DOMAIN item.v
    /\ IsStr(item.v["full_name"]) /\ IsStr(item.v["name"])
    /\ IsStr(item.v["updated_at"]) /\ IsTimestamp(item.v["updated_at"].v)

\* The smaller of two numbers.
Least(a, b) == IF a <= b THEN a ELSE b

\* The call under test is of a search fetcher and was answered 200 with
\* k >= 1 repository items.
SearchAnswered ==
    /\ Returned /\ call.fn \in {"fetch_github_activity", "fetch_security_advisories"}
    /\ call.r.t = "response" /\ call.r.status = 200
    /\ IsDict(call.r.body) /\ "items" \in DOMAIN call.r.body.v
    /\ IsList(call.r.body.v["items"]) /\ Len(call.r.body.v["items"].v) >= 1
    /\ \A i \in 1..Len(call.r.body.v["items"].v) : WellFormedRepo(call.r.body.v["items"].v[i])

StepOf(name) == CHOOSE i \in 1..Len(Program) : Program[i].name = name

\* What the site's call returns in a process that has served no query
\* before, on the name and the replies of this run.
FreshResult(name) ==
    LET st == Program[StepOf(name)]
        replies == got[name]
    IN  IF st.fn = "github_count" THEN GitHubCount_eol(replies[1])
        ELSE Call(rev, st.fn, software,
                  IF Len(replies) >= 1 THEN replies[1] ELSE NoReply,
                  IF Len(replies) >= 2 THEN replies[2] ELSE NoReply)

TabOf(name) ==
    IF rev = "eol_final" /\ name = "EndOfLife.date" THEN "Version History" ELSE name

\* The indicator the outcome calls for.
IndicatorFor(outcome) ==
    CASE outcome = "Failure" -> "error"
      [] outcome = "Empty"   -> "nodata"
      [] outcome = "Success" -> "data"
      [] OTHER               -> "none"

\* C16: after a query every registered source shows the one indicator that
\* matches its own outcome: an error for Failure, 'no data' for Empty, the
\* data for Success; a Failure is never displayed as 'no data'.
C16_IndicatorMatchesOutcome ==
    pc = "done" =>
        \A i \in 1..Len(ShippedSources) :
            LET name == ShippedSources[i].name IN
            /\ TabOf(name) \in DOMAIN shown
            /\ shown[TabOf(name)] = IndicatorFor(Outcome(bundle[name]))

\* The phase of the query a script run serves.
Phase ==
    CASE pc = "idle"     -> 0
      [] pc = "fetching" -> 1
      [] OTHER           -> 2

\* Every call of the running script has returned into the bundle.
BundleReady == \A i \in 1..Len(Program) : Program[i].name \in DOMAIN bundle

\* Within one query the phase never goes back.
PhasesInOrder == [][runs' = runs => Phase' >= Phase]_vars

\* At most one outbound request is in flight, and only while fetching.
OneAtATime == [](inflight <= 1 /\ (inflight = 1 => pc = "fetching"))

\* A tab is rendered only after the fetch it shows has returned.
RenderAfterFetch ==
    [](/\ (pc = "render" => BundleReady)
       /\ (rev = "eol" => \A t \in DOMAIN shown : t \in DOMAIN bundle)
       /\ (rev = "eol_final" /\ shown # <<>> => BundleReady))

\* A query that is fetching eventually has its bundle ready.
ReachesBundleReady ==
    \A n \in 1..MaxRuns : (pc = "fetching" /\ runs = n) ~> (BundleReady /\ runs = n)

\* C17: a query with a non-empty name moves through not started ->
\* fetching -> bundle ready in that order and never back, with at most one
\* request in flight, rendering only after the fetches it uses returned,
\* and, every request eventually returning, it reaches bundle ready.
C17_PhasesAndProgress ==
    PhasesInOrder /\ OneAtATime /\ RenderAfterFetch /\ ReachesBundleReady

\* The run of eol.py has filled the tab.
Filled(t) == t \in DOMAIN shown

CountAnswered ==
    IF rev = "eol" THEN "GitHub count" \in DOMAIN bundle
    ELSE "Community" \in DOMAIN bundle

\* The reply to the count request.
CountReply == IF rev = "eol" THEN got["GitHub count"][1] ELSE got["Community"][2]

\* The count the Community section shows.
CountShown ==
    IF rev = "eol" THEN bundle["GitHub count"].v["count"]
    ELSE bundle["Community"].v["GitHub"].v["Repositories"]

\* The warning shown with the count, None when there is none: github_error
\* of eol.py; eol_final.py has no message to show next to the count.
CountWarning == IF rev = "eol" THEN bundle["GitHub count"].v["error"] ELSE None

\* C19: the outcome of the GitHub repository-count request distinguishes
\* the reply: 200 gives total_count and no warning, 403 gives 0 with the
\* rate-limit warning, any other status 0 with an error naming the status
\* code, a transport fault 0 with an error message; a 403 is never
\* reported the way 'no data' is.
C19_CountDistinguishesStatus ==
    CountAnswered =>
        LET r == CountReply IN
        CASE r.t = "fault" ->
               CountShown = N(0) /\ IsStr(CountWarning) /\ Len(CountWarning.v) > 0
          [] r.t = "response" /\ r.status = 200 ->
               CountShown = r.body.v["total_count"] /\ CountWarning = None
          [] r.t = "response" /\ r.status = 403 ->
               /\ CountShown = N(0)
               /\ CountWarning = S("GitHub API rate limit exceeded. Please try again later or use a personal access token.")
          [] OTHER ->
               /\ CountShown = N(0)
               /\ CountWarning = S("GitHub API error: " \o NatToStr(r.status))

\* The Overview tab of eol_final.py shows its Security Status metric.
StatusShown ==
    rev = "eol_final" /\ "Overview" \in DOMAIN shown /\ shown["Overview"] # "raises"

\* The number of advisories fetch_security_advisories returned in this run.
AdvisoryCount ==
    IF Outcome(bundle["Security"]) = "Success" /\ IsList(bundle["Security"])
    THEN Len(bundle["Security"].v) ELSE 0

\* C20: in eol_final.py the Overview 'Security Status' is a function of the
\* advisory fetch outcome only: 'Low Risk' when the fetch returned Empty or
\* failed (count 0), 'Medium Risk' for 1 or 2 advisories, 'High Risk'
\* exactly for 3; a transport failure of the advisory search shows
\* 'Low Risk' and the count is within 0..3.
C20_SecurityStatusFromOutcome ==
    StatusShown =>
        /\ AdvisoryCount \in 0..3
        /\ shown["Overview"] = (CASE AdvisoryCount = 0 -> "Low Risk"
                                  [] AdvisoryCount \in {1, 2} -> "Medium Risk"
                                  [] OTHER -> "High Risk")
        /\ shown["Overview"] = "High Risk" <=> AdvisoryCount = 3
        /\ Outcome(bundle["Security"]) \in {"Empty", "Failure"} => shown["Overview"] = "Low Risk"
        /\ got["Security"][1].t = "fault" => shown["Overview"] = "Low Risk"

\* The advisory search returned four repositories, three advisories were
\* kept and the Overview shows 'High Risk'.
C20_Witness ==
    /\ StatusShown /\ pc = "done"
    /\ got["Security"][1] = Http(200, ManyAdvisories)
    /\ Len(ManyAdvisories.v["items"].v) = 4
    /\ AdvisoryCount = 3 /\ shown["Overview"] = "High Risk"

=============================================================================
